---- MODULE Spec2Model ----
(***************************************************************************)
(* Model of the address-library dumper (src/main.cpp): a header parser, a  *)
(* delta-compressed record stream decoder, a sort by id and a line         *)
(* emitter.  A std::uint64_t is a tuple of 8 bytes, least significant      *)
(* first (the order the bytes have in the file), so that all arithmetic    *)
(* keeps its 64-bit width; a std::int32_t is an integer.                   *)
(***************************************************************************)
EXTENDS Integers, Sequences, FiniteSets

\* ------------------------------------------------------------------------
\* Bounds of the explored inputs
\* ------------------------------------------------------------------------

\* largest number of records in an input file
MaxRecords == 2

\* largest length of the name field of the header
MaxNameLen == 1

\* largest number of bytes cut off the end of a file
MaxCut == 1

\* ------------------------------------------------------------------------
\* Unsigned 64-bit arithmetic on little-endian byte tuples
\* ------------------------------------------------------------------------

RECURSIVE Fill(_, _)
Fill(b, n) == IF n <= 0 THEN <<>> ELSE <<b>> \o Fill(b, n - 1)

\* std::uint64_t x = 0
U64Zero == Fill(0, 8)

\* the largest std::uint64_t, 2^64 - 1
U64Max == Fill(255, 8)

\* integral conversion of an unsigned 8-, 16- or 32-bit value to std::uint64_t
ZeroExtend(bytes) == bytes \o Fill(0, 8 - Len(bytes))

\* the std::uint64_t of a small non-negative integer (0 <= n < 2^24)
U64Of(n) == ZeroExtend(<<n % 256, (n \div 256) % 256, (n \div 65536) % 256>>)

RECURSIVE AddCarry(_, _, _, _)
AddCarry(a, b, k, c) ==
    IF k > Len(a) THEN <<>>
    ELSE LET s == a[k] + b[k] + c
         IN  <<s % 256>> \o AddCarry(a, b, k + 1, s \div 256)

\* a + b on std::uint64_t: the sum modulo 2^64
AddU64(a, b) == AddCarry(a, b, 1, 0)

Complement(a) == [k \in 1..Len(a) |-> 255 - a[k]]

\* a - b on std::uint64_t: the difference modulo 2^64
SubU64(a, b) == AddCarry(a, Complement(b), 1, 1)

RECURSIVE ColumnSum(_, _, _, _)
ColumnSum(a, b, k, i) ==
    IF i > k THEN 0 ELSE a[i] * b[k + 1 - i] + ColumnSum(a, b, k, i + 1)

RECURSIVE MulCarry(_, _, _, _)
MulCarry(a, b, k, c) ==
    IF k > Len(a) THEN <<>>
    ELSE LET s == ColumnSum(a, b, k, 1) + c
         IN  <<s % 256>> \o MulCarry(a, b, k + 1, s \div 256)

\* a * b on std::uint64_t: the product modulo 2^64
MulU64(a, b) == MulCarry(a, b, 1, 0)

RECURSIVE LessFrom(_, _, _)
LessFrom(a, b, k) ==
    IF k < 1 THEN FALSE
    ELSE IF a[k] # b[k] THEN a[k] < b[k]
    ELSE LessFrom(a, b, k - 1)

\* a < b on unsigned values of the same width
LessU(a, b) == LessFrom(a, b, Len(a))

\* bit n (0 = least significant) of a
BitAt(a, n) == (a[(n \div 8) + 1] \div (2 ^ (n % 8))) % 2

RECURSIVE ShiftIn(_, _, _)
ShiftIn(r, k, c) ==
    IF k > Len(r) THEN <<>>
    ELSE LET s == 2 * r[k] + c
         IN  <<s % 256>> \o ShiftIn(r, k + 1, s \div 256)

\* binary long division: the quotient bits of a / d, most significant first;
\* r is the running remainder, 9 bytes wide
RECURSIVE DivBits(_, _, _, _)
DivBits(a, d, n, r) ==
    IF n < 0 THEN <<>>
    ELSE LET r2 == ShiftIn(r, 1, BitAt(a, n))
             ge == ~LessU(r2, d)
             r3 == IF ge THEN SubU64(r2, d) ELSE r2
         IN  <<IF ge THEN 1 ELSE 0>> \o DivBits(a, d, n - 1, r3)

\* the quotient of a general division, packed from its bits
LongDiv(a, d) ==
    LET q == DivBits(a, d \o <<0>>, 63, Fill(0, 9))
        bit(n) == q[64 - n]
    IN  [k \in 1..8 |->
            bit(8 * k - 8) + 2 * bit(8 * k - 7) + 4 * bit(8 * k - 6)
            + 8 * bit(8 * k - 5) + 16 * bit(8 * k - 4) + 32 * bit(8 * k - 3)
            + 64 * bit(8 * k - 2) + 128 * bit(8 * k - 1)]

\* short division of a by the integer m, 0 < m < 2^23, from byte k down;
\* r is the running remainder
RECURSIVE ShortDiv(_, _, _, _)
ShortDiv(a, m, k, r) ==
    IF k < 1 THEN <<>>
    ELSE LET cur == 256 * r + a[k]
         IN  ShortDiv(a, m, k - 1, cur % m) \o <<cur \div m>>

\* a / d on std::uint64_t, d # 0: the quotient rounded towards zero
DivU64(a, d) ==
    IF d[3] < 128 /\ \A k \in 4..8 : d[k] = 0
    THEN ShortDiv(a, d[1] + 256 * d[2] + 65536 * d[3], 8, 0)
    ELSE LongDiv(a, d)

\* fmt::to_string(a).length(): the number of decimal digits of a
RECURSIVE DecimalLength(_)
DecimalLength(a) ==
    LET q == ShortDiv(a, 10, 8, 0)
    IN  IF q = U64Zero THEN 1 ELSE 1 + DecimalLength(q)

\* ------------------------------------------------------------------------
\* The byte cursor (binary_io::span_istream) over the mapped file
\* ------------------------------------------------------------------------

\* a read of n bytes at position p of buffer b: it succeeds and advances the
\* position by n, or fails and leaves the position where it was
CursorRead(b, p, n) ==
    IF p >= 0 /\ p + n <= Len(b)
    THEN [ok |-> TRUE, pos |-> p + n, bytes |-> SubSeq(b, p + 1, p + n)]
    ELSE [ok |-> FALSE, pos |-> p, bytes |-> <<>>]

\* seek_relative(d) at position p of buffer b
CursorSeek(b, p, d) ==
    IF p + d >= 0 /\ p + d <= Len(b)
    THEN [ok |-> TRUE, pos |-> p + d]
    ELSE [ok |-> FALSE, pos |-> p]

\* the std::int32_t stored in 4 little-endian bytes
Int32Of(bytes) ==
    bytes[1] + 256 * bytes[2] + 65536 * bytes[3]
    + 16777216 * (IF bytes[4] >= 128 THEN bytes[4] - 256 ELSE bytes[4])

\* the 4 little-endian bytes of a std::int32_t (two's complement)
Int32Bytes(n) ==
    LET m == IF n >= 0 THEN n ELSE -(n + 1)
        b == <<m % 256, (m \div 256) % 256, (m \div 65536) % 256,
               m \div 16777216>>
    IN  IF n >= 0 THEN b ELSE Complement(b)

\* integral conversion of a std::int32_t to std::uint64_t (sign extension)
U64OfInt32(n) ==
    LET b == Int32Bytes(n)
    IN  b \o Fill(IF n < 0 THEN 255 ELSE 0, 4)

\* ------------------------------------------------------------------------
\* read_header
\* ------------------------------------------------------------------------

\* header_t with its default member initializers
header_t == [format |-> 0, version |-> <<0, 0, 0, 0>>,
             pointer_size |-> 0, address_count |-> 0]

\* valid_format with a third case label
valid_format_with_zero(format) == format \in {0, 1, 2}

\* the switch on h.format: cases 1 and 2 break, any other value raises
valid_format(format) == format \in {1, 2}

\* read_header without the seek over the name
read_header_no_seek(b) ==
    LET r1 == CursorRead(b, 0, 4)
        format == Int32Of(r1.bytes)
        r2 == CursorRead(b, r1.pos, 16)
        r3 == CursorRead(b, r2.pos, 4)
        r5 == CursorRead(b, r3.pos, 8)
        fail(e, p) == [err |-> e, pos |-> p, header |-> header_t]
    IN  IF ~r1.ok THEN fail("OutOfBounds", r1.pos)
        ELSE IF ~valid_format(format) THEN fail("InvalidFormat", r1.pos)
        ELSE IF ~r2.ok THEN fail("OutOfBounds", r2.pos)
        ELSE IF ~r3.ok THEN fail("OutOfBounds", r3.pos)
        ELSE IF ~r5.ok THEN fail("OutOfBounds", r5.pos)
        ELSE [err |-> "none", pos |-> r5.pos,
              header |-> [format |-> format,
                          version |-> [k \in 1..4 |->
                              Int32Of(SubSeq(r2.bytes, 4 * k - 3, 4 * k))],
                          pointer_size |-> Int32Of(SubSeq(r5.bytes, 1, 4)),
                          address_count |-> Int32Of(SubSeq(r5.bytes, 5, 8))]]

\* read_header on buffer b with the cursor at 0: the error raised ("none"
\* when it returns), the position the cursor is left at, and the header
read_header(b) ==
    LET r1 == CursorRead(b, 0, 4)
        format == Int32Of(r1.bytes)
        r2 == CursorRead(b, r1.pos, 16)
        r3 == CursorRead(b, r2.pos, 4)
        nameLen == Int32Of(r3.bytes)
        r4 == CursorSeek(b, r3.pos, nameLen)
        r5 == CursorRead(b, r4.pos, 8)
        fail(e, p) == [err |-> e, pos |-> p, header |-> header_t]
    IN  IF ~r1.ok THEN fail("OutOfBounds", r1.pos)
        ELSE IF ~valid_format(format) THEN fail("InvalidFormat", r1.pos)
        ELSE IF ~r2.ok THEN fail("OutOfBounds", r2.pos)
        ELSE IF ~r3.ok THEN fail("OutOfBounds", r3.pos)
        ELSE IF ~r4.ok THEN fail("OutOfBounds", r4.pos)
        ELSE IF ~r5.ok THEN fail("OutOfBounds", r5.pos)
        ELSE [err |-> "none", pos |-> r5.pos,
              header |-> [format |-> format,
                          version |-> [k \in 1..4 |->
                              Int32Of(SubSeq(r2.bytes, 4 * k - 3, 4 * k))],
                          pointer_size |-> Int32Of(SubSeq(r5.bytes, 1, 4)),
                          address_count |-> Int32Of(SubSeq(r5.bytes, 5, 8))]]

\* ------------------------------------------------------------------------
\* One iteration of the record loop of read_file
\* ------------------------------------------------------------------------

\* lo with the mask 0x7
lo_three_bits(type) == type % 8

\* type & 0xF
lo(type) == type % 16

\* type >> 4
hi(type) == type \div 16

\* number of bytes the id switch reads for low nibble lo (0..7)
id_width(l) ==
    CASE l = 0 -> 8
      [] l = 1 -> 0
      [] l \in {2, 3} -> 1
      [] l \in {4, 5, 6} -> 2
      [] l = 7 -> 4

\* decode_id with the two 8-bit cases exchanged
decode_id_swapped(l, prev, v) ==
    CASE l = 0 -> v
      [] l = 1 -> AddU64(prev, U64Of(1))
      [] l = 2 -> SubU64(prev, v)
      [] l = 3 -> AddU64(prev, v)
      [] l = 4 -> AddU64(prev, v)
      [] l = 5 -> SubU64(prev, v)
      [] l = 6 -> v
      [] l = 7 -> v

\* decode_id keeping only 32 bits of an absolute 64-bit id
decode_id_narrow(l, prev, v) ==
    CASE l = 0 -> ZeroExtend(SubSeq(v, 1, 4))
      [] l = 1 -> AddU64(prev, U64Of(1))
      [] l = 2 -> AddU64(prev, v)
      [] l = 3 -> SubU64(prev, v)
      [] l = 4 -> AddU64(prev, v)
      [] l = 5 -> SubU64(prev, v)
      [] l = 6 -> v
      [] l = 7 -> v

\* the id the switch on lo assigns, v being the value read (zero-extended)
decode_id(l, prev, v) ==
    CASE l = 0 -> v
      [] l = 1 -> AddU64(prev, U64Of(1))
      [] l = 2 -> AddU64(prev, v)
      [] l = 3 -> SubU64(prev, v)
      [] l = 4 -> AddU64(prev, v)
      [] l = 5 -> SubU64(prev, v)
      [] l = 6 -> v
      [] l = 7 -> v

\* offset_width reading 32 bits in case 6
offset_width_wide(sub) ==
    CASE sub = 0 -> 8
      [] sub = 1 -> 0
      [] sub \in {2, 3} -> 1
      [] sub \in {4, 5} -> 2
      [] sub \in {6, 7} -> 4

\* number of bytes the offset switch reads for sub-mode hi & 7
offset_width(sub) ==
    CASE sub = 0 -> 8
      [] sub = 1 -> 0
      [] sub \in {2, 3} -> 1
      [] sub \in {4, 5, 6} -> 2
      [] sub = 7 -> 4

\* the offset the switch on hi & 7 assigns, before scaling
decode_offset(sub, base, v) ==
    CASE sub = 0 -> v
      [] sub = 1 -> AddU64(base, U64Of(1))
      [] sub = 2 -> AddU64(base, v)
      [] sub = 3 -> SubU64(base, v)
      [] sub = 4 -> AddU64(base, v)
      [] sub = 5 -> SubU64(base, v)
      [] sub = 6 -> v
      [] sub = 7 -> v

\* (hi & 8) != 0
scaled(h) == (h \div 8) % 2 = 1

\* offset_mode dispatching on the whole of hi
offset_mode_whole(h) == h

\* hi & 7, the value the offset switch dispatches on
offset_mode(h) == h % 8

\* what prevOffset / header.pointer_size may do when pointer_size is 0
\* (undefined behaviour): the division traps, or it yields some value
DivideByZero == {[trap |-> TRUE, value |-> U64Zero],
                 [trap |-> FALSE, value |-> U64Zero],
                 [trap |-> FALSE, value |-> U64Max]}

\* offset_base dividing whether or not the scaling bit is set
offset_base_always_divided(h, prev, pointer_size, ub) ==
    IF pointer_size = 0 THEN ub
    ELSE [trap |-> FALSE, value |-> DivU64(prev, U64OfInt32(pointer_size))]

\* tmp, the base of the offset switch; ub is the outcome taken by a
\* division by zero
offset_base(h, prev, pointer_size, ub) ==
    IF scaled(h)
    THEN IF pointer_size = 0 THEN ub
         ELSE [trap |-> FALSE,
               value |-> DivU64(prev, U64OfInt32(pointer_size))]
    ELSE [trap |-> FALSE, value |-> prev]

\* scale_offset leaving the absolute sub-modes 0, 6 and 7 unscaled
scale_offset_deltas_only(h, off, pointer_size) ==
    IF scaled(h) /\ h % 8 \notin {0, 6, 7}
    THEN MulU64(off, U64OfInt32(pointer_size))
    ELSE off

\* the offset after the multiplication by pointer_size
scale_offset(h, off, pointer_size) ==
    IF scaled(h) THEN MulU64(off, U64OfInt32(pointer_size)) ELSE off

\* the body of the loop of read_file with the cursor at p: the error raised
\* ("none" when the iteration completes), the position the cursor is left
\* at and the values of the locals type, id and offset
read_record(b, p, pointer_size, pID, pOffset, type0, id0, offset0, ub) ==
    LET r1 == CursorRead(b, p, 1)
        t == r1.bytes[1]
        l == lo(t)
        h == hi(t)
        r2 == CursorRead(b, r1.pos, id_width(l))
        i == decode_id(l, pID, ZeroExtend(r2.bytes))
        tmp == offset_base(h, pOffset, pointer_size, ub)
        sub == offset_mode(h)
        r3 == CursorRead(b, r2.pos, offset_width(sub))
        off == decode_offset(sub, tmp.value, ZeroExtend(r3.bytes))
        exit(e, p2, t2, i2, o2) ==
            [err |-> e, pos |-> p2, type |-> t2, id |-> i2, offset |-> o2]
    IN  IF ~r1.ok THEN exit("OutOfBounds", r1.pos, type0, id0, offset0)
        ELSE IF l \notin 0..7
        THEN exit("UnhandledTag", r1.pos, t, id0, offset0)
        ELSE IF ~r2.ok THEN exit("OutOfBounds", r2.pos, t, id0, offset0)
        ELSE IF tmp.trap THEN exit("DivideByZeroTrap", r2.pos, t, i, offset0)
        ELSE IF sub \notin 0..7
        THEN exit("UnhandledTag", r2.pos, t, i, offset0)
        ELSE IF ~r3.ok THEN exit("OutOfBounds", r3.pos, t, i, offset0)
        ELSE exit("none", r3.pos, t, i, scale_offset(h, off, pointer_size))

\* ------------------------------------------------------------------------
\* dump_mappings: the sort and the emitted lines
\* ------------------------------------------------------------------------

\* sort_less comparing the second members
sort_less_by_second(a_lhs, a_rhs) == LessU(a_lhs[2], a_rhs[2])

\* the comparison std::sort is given: a_lhs.first < a_rhs.first
sort_less(a_lhs, a_rhs) == LessU(a_lhs[1], a_rhs[1])

Orders(n) == {f \in [1..n -> 1..n] : \A j, k \in 1..n : f[j] = f[k] => j = k}

\* the orders std::sort may leave m in: every permutation of m that is
\* sorted with respect to sort_less (equivalent elements in any order)
std_sort(m) ==
    {s \in {[k \in 1..Len(m) |-> m[f[k]]] : f \in Orders(Len(m))} :
        \A k \in 1..(Len(m) - 1) : ~sort_less(s[k + 1], s[k])}

\* mappings.empty() ? 0 : fmt::to_string(mappings.back().first).length()
id_length(m) == IF m = <<>> THEN 0 ELSE DecimalLength(m[Len(m)][1])

\* info_line giving the id for both of the printed arguments
info_line_id_twice(length, mapping) ==
    [len |-> length, id |-> mapping[1], address |-> mapping[1]]

\* the arguments of one a_out.info("{1: >{0}}\t{2:07X}", len, id, address)
info_line(length, mapping) ==
    [len |-> length, id |-> mapping[1], address |-> mapping[2]]

\* ------------------------------------------------------------------------
\* Input files
\* ------------------------------------------------------------------------

\* the bytes of a header
HeaderBytes(format, nameLen, name, pointer_size, address_count) ==
    Int32Bytes(format) \o Int32Bytes(1) \o Int32Bytes(6) \o Int32Bytes(640)
    \o Int32Bytes(0) \o Int32Bytes(nameLen) \o name
    \o Int32Bytes(pointer_size) \o Int32Bytes(address_count)

\* number of field bytes that follow a tag for a mode nibble
FieldBytes(mode) ==
    CASE mode % 8 = 0 -> 8
      [] mode % 8 = 1 -> 0
      [] mode % 8 \in {2, 3} -> 1
      [] mode % 8 \in {4, 5, 6} -> 2
      [] mode % 8 = 7 -> 4

\* a record with tag byte tag whose field bytes all are b
RecordBytes(tag, b) ==
    <<tag>> \o Fill(b, FieldBytes(tag % 16)) \o Fill(b, FieldBytes(tag \div 16))

\* records that set the carried state: (100, 16) and (2^64-1, 2^64-1)
SeedRecords == {<<102, 100, 0, 16, 0>>, <<0>> \o Fill(255, 16)}

\* the sequences of at most n seed records
RECURSIVE SeedStreams(_)
SeedStreams(n) ==
    IF n <= 0 THEN {<<>>}
    ELSE SeedStreams(n - 1)
         \cup {Append(s, r) : s \in SeedStreams(n - 1), r \in SeedRecords}

RECURSIVE Flatten(_)
Flatten(records) ==
    IF records = <<>> THEN <<>> ELSE Head(records) \o Flatten(Tail(records))

\* bytes without its last c bytes
Truncate(bytes, c) == SubSeq(bytes, 1, Len(bytes) - c)

PointerSizes == {0, 4, 8}

FieldFill == {5, 255}

\* files whose last record has any tag byte, after any seed records, the
\* end of the file cut off by at most MaxCut bytes
RecordFiles ==
    {Truncate(HeaderBytes(1, 0, <<>>, ps, Len(seeds) + 1)
              \o Flatten(seeds) \o RecordBytes(tag, b), c) :
        seeds \in SeedStreams(MaxRecords - 1), tag \in 0..255,
        b \in FieldFill, ps \in PointerSizes, c \in 0..MaxCut}

\* a stream of n seed records, the two seeds alternating
RECURSIVE SeedChain(_)
SeedChain(n) ==
    IF n <= 0 THEN <<>>
    ELSE SeedChain(n - 1)
         \o (IF n % 2 = 1 THEN <<102, 100, 0, 16, 0>> ELSE <<0>> \o Fill(255, 16))

\* the bytes names are made of
NameFill == {2, 65}

\* files with either format, a name, any announced count (negative, fewer
\* or as many records as present), cut off at every length
HeaderFiles ==
    UNION {{SubSeq(f, 1, n) : n \in 0..Len(f)} :
        f \in {HeaderBytes(format, nameLen, Fill(c, nameLen), 4, count)
               \o SeedChain(MaxRecords) :
                   format \in {1, 2}, nameLen \in 0..MaxNameLen,
                   c \in NameFill, count \in -1..MaxRecords}}

\* files whose format field is not a recognised one, or whose name length
\* points outside the file
MalformedFiles ==
    {HeaderBytes(format, 0, <<>>, 4, MaxRecords) \o SeedChain(MaxRecords) :
        format \in {0, 3, 99, -1}}
    \cup {HeaderBytes(2, nameLen, <<>>, 4, MaxRecords) \o SeedChain(MaxRecords) :
        nameLen \in {-1, -25, 1000}}

\* files with a negative pointer size whose last record is pointer-scaled
NegativePointerFiles ==
    {HeaderBytes(1, 0, <<>>, -4, Len(seeds) + 1)
     \o Flatten(seeds) \o RecordBytes(16 * h + 1, 5) :
        seeds \in SeedStreams(MaxRecords - 1), h \in 8..15}

\* 64-bit values written as 16 hexadecimal digits, most significant first
Hex100 == <<0, 0, 0, 0, 0, 0, 0, 0, 0, 0, 0, 0, 0, 0, 6, 4>>
Hex16 == <<0, 0, 0, 0, 0, 0, 0, 0, 0, 0, 0, 0, 0, 0, 1, 0>>
HexLow == <<0, 8, 0, 7, 0, 6, 0, 5, 0, 4, 0, 3, 0, 2, 0, 1>>
HexHigh == <<1, 0, 0, 15, 0, 14, 0, 13, 0, 12, 0, 11, 0, 10, 0, 9>>
HexMax == <<15, 15, 15, 15, 15, 15, 15, 15, 15, 15, 15, 15, 15, 15, 15, 15>>
HexZero == <<0, 0, 0, 0, 0, 0, 0, 0, 0, 0, 0, 0, 0, 0, 0, 0>>

\* the (id, offset) pairs the absolute files are made of
AbsolutePairs == {<<Hex100, Hex16>>, <<HexLow, HexHigh>>, <<HexMax, HexZero>>}

\* the sequences of at most n of these pairs
RECURSIVE AbsoluteStreams(_)
AbsoluteStreams(n) ==
    IF n <= 0 THEN {<<>>}
    ELSE AbsoluteStreams(n - 1)
         \cup {Append(s, p) : s \in AbsoluteStreams(n - 1), p \in AbsolutePairs}

\* the 8 little-endian bytes of a value given by its hexadecimal digits
LittleEndian64(digits) ==
    [k \in 1..8 |-> 16 * digits[17 - 2 * k] + digits[18 - 2 * k]]

\* the hexadecimal digits, most significant first, of a std::uint64_t
HexDigits(u) ==
    [j \in 1..16 |->
        LET b == u[8 - ((j - 1) \div 2)]
        IN  IF j % 2 = 1 THEN b \div 16 ELSE b % 16]

\* the record stream that gives every pair with tag 0x00, the id and the
\* offset as 8 little-endian bytes each
RECURSIVE AbsoluteRecords(_)
AbsoluteRecords(pairs) ==
    IF pairs = <<>> THEN <<>>
    ELSE <<0>> \o LittleEndian64(Head(pairs)[1])
         \o LittleEndian64(Head(pairs)[2]) \o AbsoluteRecords(Tail(pairs))

\* the files in the absolute encoding, each with the pairs it encodes
AbsoluteInputs ==
    {[bytes |-> HeaderBytes(2, 0, <<>>, ps, Len(pairs)) \o AbsoluteRecords(pairs),
      pairs |-> pairs] :
        pairs \in AbsoluteStreams(MaxRecords), ps \in PointerSizes}

AbsoluteFiles == {f.bytes : f \in AbsoluteInputs}

\* files whose first record is pointer-scaled (id 7, offset 5 pointers),
\* followed by a record with any high nibble that adds 1 to the id
ScaledFirstFiles ==
    {HeaderBytes(1, 0, <<>>, ps, 2) \o <<230, 7, 0, 5, 0>>
     \o RecordBytes(16 * h + 1, 5) :
        h \in 0..15, ps \in PointerSizes}

Files ==
    RecordFiles \cup HeaderFiles \cup MalformedFiles \cup NegativePointerFiles
    \cup AbsoluteFiles \cup ScaledFirstFiles

\* ------------------------------------------------------------------------
\* The program
\* ------------------------------------------------------------------------

VARIABLES
    a_argc,      \* wmain: the argument count
    buf,         \* the mapped file
    pc,          \* where the program is
    pos,         \* the position of the cursor a_in
    header,      \* read_file: header
    mappings,    \* read_file: mappings, then dump_mappings: mappings
    n,           \* read_file: number of completed iterations of the loop
    type,        \* read_file: type
    id,          \* read_file: id
    offset,      \* read_file: offset
    prevID,      \* read_file: prevID
    prevOffset,  \* read_file: prevOffset
    returned,    \* what read_file returned, <<>> before it returns
    out,         \* the lines given to the logger a_out
    err,         \* the exception in flight or caught, "none" without one
    status       \* what wmain returned, -1 before it returns

vars == <<a_argc, buf, pc, pos, header, mappings, n, type, id, offset,
          prevID, prevOffset, returned, out, err, status>>

EXIT_FAILURE == 1

Init ==
    /\ \/ a_argc = 2 /\ buf \in Files
       \/ a_argc \in {1, 3}
          /\ buf = HeaderBytes(1, 0, <<>>, 4, MaxRecords) \o SeedChain(MaxRecords)
    /\ pc = "wmain"
    /\ pos = 0
    /\ header = header_t
    /\ mappings = <<>>
    /\ n = 0
    /\ type = 0
    /\ id = U64Zero
    /\ offset = U64Zero
    /\ prevID = U64Zero
    /\ prevOffset = U64Zero
    /\ returned = <<>>
    /\ out = <<>>
    /\ err = "none"
    /\ status = -1

\* wmain, lines 205-210: do_main when there is exactly one argument
wmain ==
    /\ pc = "wmain"
    /\ IF a_argc = 2
       THEN pc' = "read_header" /\ err' = err
       ELSE pc' = "catch" /\ err' = "BadArguments"
    /\ UNCHANGED <<a_argc, buf, pos, header, mappings, n, type, id, offset,
                   prevID, prevOffset, returned, out, status>>

\* read_file, line 84: const auto header = read_header(a_in)
ReadHeader ==
    /\ pc = "read_header"
    /\ LET r == read_header(buf)
       IN  /\ pos' = r.pos
           /\ header' = r.header
           /\ err' = r.err
           /\ pc' = IF r.err = "none" THEN "allocate" ELSE "catch"
    /\ UNCHANGED <<a_argc, buf, mappings, n, type, id, offset, prevID,
                   prevOffset, returned, out, status>>

\* Allocate with one element too many
AllocateOneMore ==
    /\ pc = "allocate"
    /\ IF header.address_count < 0
       THEN /\ err' = "LengthError"
            /\ pc' = "catch"
            /\ mappings' = mappings
       ELSE /\ err' = err
            /\ pc' = "loop"
            /\ mappings' = [k \in 1..(header.address_count + 1) |->
                               <<U64Zero, U64Zero>>]
    /\ UNCHANGED <<a_argc, buf, pos, header, n, type, id, offset, prevID,
                   prevOffset, returned, out, status>>

\* read_file, line 85: the vector of address_count value-initialised pairs;
\* a negative count converts to a size beyond max_size()
Allocate ==
    /\ pc = "allocate"
    /\ IF header.address_count < 0
       THEN /\ err' = "LengthError"
            /\ pc' = "catch"
            /\ mappings' = mappings
       ELSE /\ err' = err
            /\ pc' = "loop"
            /\ mappings' = [k \in 1..header.address_count |->
                               <<U64Zero, U64Zero>>]
    /\ UNCHANGED <<a_argc, buf, pos, header, n, type, id, offset, prevID,
                   prevOffset, returned, out, status>>

\* DecodeRecord with the cursor passed by value: a completed iteration
\* leaves the caller's cursor where it was
DecodeRecordCursorByValue ==
    /\ pc = "loop"
    /\ n < Len(mappings)
    /\ \E ub \in (IF header.pointer_size = 0 THEN DivideByZero
                  ELSE {[trap |-> FALSE, value |-> U64Zero]}) :
        LET r == read_record(buf, pos, header.pointer_size, prevID,
                             prevOffset, type, id, offset, ub)
        IN  /\ pos' = IF r.err = "none" THEN pos ELSE r.pos
            /\ type' = r.type
            /\ id' = r.id
            /\ offset' = r.offset
            /\ err' = r.err
            /\ IF r.err = "none"
               THEN /\ mappings' = [mappings EXCEPT ![n + 1] = <<r.id, r.offset>>]
                    /\ prevOffset' = r.offset
                    /\ prevID' = r.id
                    /\ n' = n + 1
                    /\ pc' = pc
               ELSE /\ UNCHANGED <<mappings, prevOffset, prevID, n>>
                    /\ pc' = IF r.err = "DivideByZeroTrap"
                             THEN "crashed" ELSE "catch"
    /\ UNCHANGED <<a_argc, buf, header, returned, out, status>>

\* DecodeRecord without the assignment to prevOffset
DecodeRecordStaleOffset ==
    /\ pc = "loop"
    /\ n < Len(mappings)
    /\ \E ub \in (IF header.pointer_size = 0 THEN DivideByZero
                  ELSE {[trap |-> FALSE, value |-> U64Zero]}) :
        LET r == read_record(buf, pos, header.pointer_size, prevID,
                             prevOffset, type, id, offset, ub)
        IN  /\ pos' = r.pos
            /\ type' = r.type
            /\ id' = r.id
            /\ offset' = r.offset
            /\ err' = r.err
            /\ IF r.err = "none"
               THEN /\ mappings' = [mappings EXCEPT ![n + 1] = <<r.id, r.offset>>]
                    /\ prevOffset' = prevOffset
                    /\ prevID' = r.id
                    /\ n' = n + 1
                    /\ pc' = pc
               ELSE /\ UNCHANGED <<mappings, prevOffset, prevID, n>>
                    /\ pc' = IF r.err = "DivideByZeroTrap"
                             THEN "crashed" ELSE "catch"
    /\ UNCHANGED <<a_argc, buf, header, returned, out, status>>

\* read_file, lines 92-165: one iteration of the loop over mappings
DecodeRecord ==
    /\ pc = "loop"
    /\ n < Len(mappings)
    /\ \E ub \in (IF header.pointer_size = 0 THEN DivideByZero
                  ELSE {[trap |-> FALSE, value |-> U64Zero]}) :
        LET r == read_record(buf, pos, header.pointer_size, prevID,
                             prevOffset, type, id, offset, ub)
        IN  /\ pos' = r.pos
            /\ type' = r.type
            /\ id' = r.id
            /\ offset' = r.offset
            /\ err' = r.err
            /\ IF r.err = "none"
               THEN /\ mappings' = [mappings EXCEPT ![n + 1] = <<r.id, r.offset>>]
                    /\ prevOffset' = r.offset
                    /\ prevID' = r.id
                    /\ n' = n + 1
                    /\ pc' = pc
               ELSE /\ UNCHANGED <<mappings, prevOffset, prevID, n>>
                    /\ pc' = IF r.err = "DivideByZeroTrap"
                             THEN "crashed" ELSE "catch"
    /\ UNCHANGED <<a_argc, buf, header, returned, out, status>>

\* read_file, line 167, and dump_mappings, lines 174-182: the loop is over,
\* the mappings are returned and sorted
SortMappings ==
    /\ pc = "loop"
    /\ n = Len(mappings)
    /\ returned' = mappings
    /\ mappings' \in std_sort(mappings)
    /\ pc' = "emit"
    /\ UNCHANGED <<a_argc, buf, pos, header, n, type, id, offset, prevID,
                   prevOffset, out, err, status>>

\* dump_mappings, lines 183-185: one line per mapping, in sorted order
EmitLine ==
    /\ pc = "emit"
    /\ Len(out) < Len(mappings)
    /\ out' = Append(out, info_line(id_length(mappings), mappings[Len(out) + 1]))
    /\ UNCHANGED <<a_argc, buf, pc, pos, header, mappings, n, type, id,
                   offset, prevID, prevOffset, returned, err, status>>

\* ReturnAfterDump reporting success
ReturnAfterDumpSuccess ==
    /\ pc = "emit"
    /\ Len(out) = Len(mappings)
    /\ pc' = "returned"
    /\ status' = 0
    /\ UNCHANGED <<a_argc, buf, pos, header, mappings, n, type, id, offset,
                   prevID, prevOffset, returned, out, err>>

\* wmain, line 215, after do_main returned
ReturnAfterDump ==
    /\ pc = "emit"
    /\ Len(out) = Len(mappings)
    /\ pc' = "returned"
    /\ status' = EXIT_FAILURE
    /\ UNCHANGED <<a_argc, buf, pos, header, mappings, n, type, id, offset,
                   prevID, prevOffset, returned, out, err>>

\* ReturnAfterCatch recovering the records decoded before the exception
ReturnAfterCatchRecovering ==
    /\ pc = "catch"
    /\ pc' = "emit"
    /\ mappings' = SubSeq(mappings, 1, n)
    /\ UNCHANGED <<a_argc, buf, pos, header, n, type, id, offset, prevID,
                   prevOffset, returned, out, err, status>>

\* wmain, lines 211-215: the exception is caught, its message printed
ReturnAfterCatch ==
    /\ pc = "catch"
    /\ pc' = "returned"
    /\ status' = EXIT_FAILURE
    /\ UNCHANGED <<a_argc, buf, pos, header, mappings, n, type, id, offset,
                   prevID, prevOffset, returned, out, err>>

Next ==
    \/ wmain
    \/ ReadHeader
    \/ Allocate
    \/ DecodeRecord
    \/ SortMappings
    \/ EmitLine
    \/ ReturnAfterDump
    \/ ReturnAfterCatch

Spec == Init /\ [][Next]_vars

\* wmain returned, or the process was stopped by a trap: no step is left
Halted == pc \in {"returned", "crashed"}

\* the process is scheduled until it has halted: weak fairness of Next,
\* WF_vars(Next), with its ENABLED <<Next>>_vars written out as ~Halted
\* (every action is guarded by a value of pc other than those of Halted,
\* and each has a step that changes pc, n or out wherever its guard holds)
FairSpec == Spec /\ ([]<>Halted \/ []<><<Next>>_vars)

\* ------------------------------------------------------------------------
\* Properties
\* ------------------------------------------------------------------------

\* the value of the 32-bit field at byte offset p of the file
FieldAt(p) == Int32Of(SubSeq(buf, p + 1, p + 4))

\* a step of the loop that completes the iteration it starts
RecordDecoded == pc = "loop" /\ pc' = "loop" /\ n' = n + 1

\* the tag byte of the record the loop is about to decode
Tag == buf[pos + 1]

\* the widths of the fields of the wire format, by mode 0..7
Width(mode) == <<8, 0, 1, 1, 2, 2, 2, 4>>[mode + 1]

\* the value of the w-byte field at byte offset p of the file, zero-extended
ValueAt(p, w) == ZeroExtend(SubSeq(buf, p + 1, p + w))

\* the table of delta modes: the value that mode yields from the previous
\* value base and the field value v
Delta(mode, base, v) ==
    CASE mode \in {0, 6, 7} -> v
      [] mode = 1 -> AddU64(base, U64Of(1))
      [] mode \in {2, 4} -> AddU64(base, v)
      [] mode \in {3, 5} -> SubU64(base, v)

\* v added up k times, modulo 2^64
RECURSIVE Times(_, _)
Times(v, k) == IF k <= 0 THEN U64Zero ELSE AddU64(v, Times(v, k - 1))

\* the address_count field of the file: the second 32-bit field after the
\* name, whose length is the field at offset 20
AddressCount == FieldAt(28 + FieldAt(20))

\* the pointer_size field of the file
PointerSize == FieldAt(24 + FieldAt(20))

\* C1: when the header and all records decode without error, read_file
\* returns exactly address_count mappings, filled one per iteration in file
\* order, and dump_mappings emits exactly address_count lines
C1_MappingsAndLinesCount ==
    /\ pc = "loop" =>
        /\ Len(mappings) = AddressCount
        /\ n <= AddressCount
        /\ n > 0 => mappings[n] = <<id, offset>>
        /\ \A k \in (n + 1)..Len(mappings) : mappings[k] = <<U64Zero, U64Zero>>
    /\ (pc \in {"emit", "returned"} /\ a_argc = 2 /\ err = "none") =>
        /\ n = AddressCount
        /\ Len(returned) = AddressCount
        /\ Len(out) <= AddressCount
        /\ pc = "returned" => Len(out) = AddressCount

C1_Witness ==
    /\ pc = "returned"
    /\ err = "none"
    /\ AddressCount = 2
    /\ Len(returned) = 2
    /\ Len(out) = 2

\* C2: a record with low nibble lo in 0..7 decodes to the id the table of
\* modes gives from prev_id and the id field alone, modulo 2^64: lo=0 the
\* 64-bit value, 1 prev_id+1, 2/3 prev_id +/- u8, 4/5 prev_id +/- u16,
\* 6 the u16, 7 the u32; e.g. from prev_id=100, lo=1 gives 101, lo=2 with
\* byte 5 gives 105 and lo=3 with byte 5 gives 95
C2_IdDecode ==
    [][RecordDecoded =>
        LET l == Tag % 16
            v == ValueAt(pos + 1, Width(l))
        IN  /\ l \in 0..7
            /\ id' = Delta(l, prevID, v)
            /\ mappings'[n'][1] = id'
            /\ prevID' = id'
            /\ (l = 2 => SubU64(id', prevID) = v)
            /\ (l = 3 => AddU64(id', v) = prevID)
            /\ (prevID = U64Of(100) /\ l = 1 => id' = U64Of(101))
            /\ (prevID = U64Of(100) /\ l = 2 /\ v = U64Of(5)
                    => id' = U64Of(105))
            /\ (prevID = U64Of(100) /\ l = 3 /\ v = U64Of(5)
                    => id' = U64Of(95))]_vars

\* a record with lo=3 and byte 5 decoded after the record (100, 16)
C2_Witness ==
    /\ pc = "loop"
    /\ n = 2
    /\ mappings[1] = <<U64Of(100), U64Of(16)>>
    /\ type % 16 = 3
    /\ id = U64Of(95)

\* C3: with bit 3 of the high nibble set and pointer_size > 0 the offset is
\* v * pointer_size modulo 2^64, v being the value sub-mode hi&7 yields from
\* the base prev_offset div pointer_size, for every sub-mode including the
\* absolute ones; e.g. prev_offset=16, pointer_size=4, hi=9 gives 20
C3_PointerScaling ==
    [][(RecordDecoded /\ (Tag \div 16) \in 8..15 /\ PointerSize > 0) =>
        LET sub == (Tag \div 16) % 8
            p == pos + 1 + Width(Tag % 16)
            tmp == DivU64(prevOffset, U64Of(PointerSize))
            v == Delta(sub, tmp, ValueAt(p, Width(sub)))
        IN  /\ offset' = Times(v, PointerSize)
            /\ mappings'[n'][2] = offset'
            /\ ~LessU(prevOffset, Times(tmp, PointerSize))
            /\ LessU(SubU64(prevOffset, Times(tmp, PointerSize)),
                     U64Of(PointerSize))
            /\ (prevOffset = U64Of(16) /\ PointerSize = 4 /\ Tag \div 16 = 9
                    => offset' = U64Of(20))]_vars

\* the record (100, 16) followed by a record with hi=9, pointer_size being 4
C3_Witness ==
    /\ pc = "loop"
    /\ n = 2
    /\ PointerSize = 4
    /\ mappings[1] = <<U64Of(100), U64Of(16)>>
    /\ type \div 16 = 9
    /\ offset = U64Of(20)

\* C4: with bit 3 of the high nibble clear the offset is the value the
\* table of modes gives from prev_offset and the offset field alone, modulo
\* 2^64; pointer_size takes no part, so that no division by it can fault
C4_UnscaledOffset ==
    [][(pc = "loop" /\ n < Len(mappings) /\ pos < Len(buf)
            /\ (Tag \div 16) \in 0..7) =>
        /\ pc' # "crashed"
        /\ RecordDecoded =>
            LET sub == Tag \div 16
                p == pos + 1 + Width(Tag % 16)
            IN  /\ offset' = Delta(sub, prevOffset, ValueAt(p, Width(sub)))
                /\ mappings'[n'][2] = offset'
                /\ prevOffset' = offset']_vars

\* the record (100, 16) followed by an unscaled record with sub-mode 3 and
\* byte 5, in a file whose pointer size is 0
C4_Witness ==
    /\ pc = "loop"
    /\ n = 2
    /\ PointerSize = 0
    /\ mappings[1] = <<U64Of(100), U64Of(16)>>
    /\ type \div 16 = 3
    /\ offset = U64Of(11)

\* C5: a format field other than 1 and 2 ends decoding with InvalidFormat
\* right after the field is read: the cursor is at 4, nothing of the rest
\* of the header is in the result and no mapping or line is produced
C5_InvalidFormat ==
    (/\ a_argc = 2
     /\ pc \notin {"wmain", "read_header"}
     /\ Len(buf) >= 4
     /\ FieldAt(0) \notin {1, 2}) =>
        /\ err = "InvalidFormat"
        /\ pc \in {"catch", "returned"}
        /\ pos = 4
        /\ header = header_t
        /\ mappings = <<>>
        /\ n = 0
        /\ out = <<>>

C5_Witness ==
    /\ pc = "returned"
    /\ err = "InvalidFormat"
    /\ FieldAt(0) = 99
    /\ pos = 4

\* C6: in any iteration, when the tag byte, the id field selected by lo or
\* the offset field selected by hi&7 needs more bytes than remain in the
\* file, decoding fails with OutOfBounds, and a record is decoded only from
\* bytes inside the file
C6_TruncationIsOutOfBounds ==
    [][(pc = "loop" /\ n < Len(mappings)) =>
        LET remaining == Len(buf) - pos
            idBytes == Width(Tag % 16)
            offsetBytes == Width((Tag \div 16) % 8)
        IN  /\ pos' <= Len(buf)
            /\ remaining < 1 => err' = "OutOfBounds"
            /\ (remaining >= 1 /\ Tag % 16 \in 0..7
                    /\ remaining < 1 + idBytes) => err' = "OutOfBounds"
            /\ (remaining >= 1 /\ Tag % 16 \in 0..7
                    /\ remaining >= 1 + idBytes
                    /\ remaining < 1 + idBytes + offsetBytes)
                => err' = "OutOfBounds"
            /\ RecordDecoded => remaining >= 1 + idBytes + offsetBytes]_vars

\* C7: a tag whose low nibble is in 8..15 fails with UnhandledTag whatever
\* the high nibble, the carried state and pointer_size are, once the tag
\* byte is read and before any byte of a field is
C7_UnhandledTag ==
    [][(pc = "loop" /\ n < Len(mappings) /\ pos < Len(buf)
            /\ Tag % 16 \in 8..15) =>
        /\ err' = "UnhandledTag"
        /\ pc' = "catch"
        /\ pos' = pos + 1
        /\ type' = Tag
        /\ UNCHANGED <<n, mappings, id, offset, prevID, prevOffset>>]_vars

\* a second record with low nibble 8..15 and the scaling bit set, in a file
\* whose pointer size is 0
C7_Witness ==
    /\ pc = "catch"
    /\ err = "UnhandledTag"
    /\ n = 1
    /\ type % 16 \in 8..15
    /\ type \div 16 \in 8..15
    /\ PointerSize = 0
    /\ pos = 32 + FieldAt(20) + 6

\* C8: no line is emitted before all address_count records are decoded, and
\* a run in which InvalidFormat, OutOfBounds or UnhandledTag is raised, in
\* the header or at any record, emits no line at all
C8_AllOrNothing ==
    /\ out # <<>> =>
        /\ err = "none"
        /\ pc \in {"emit", "returned"}
        /\ n = AddressCount
        /\ Len(returned) = AddressCount
    /\ err \in {"InvalidFormat", "OutOfBounds", "UnhandledTag"} =>
        /\ out = <<>>
        /\ pc \in {"catch", "returned"}

\* a run that ended with an error at the last record, one record decoded
C8_Witness ==
    /\ pc = "returned"
    /\ err \in {"OutOfBounds", "UnhandledTag"}
    /\ n = 1
    /\ AddressCount = 2
    /\ mappings[1] # <<U64Zero, U64Zero>>
    /\ out = <<>>

\* C9: the ids of the emitted lines never decrease from one line to the
\* next, whatever the order of the records in the file
C9_SortedOutput ==
    \A k \in 1..(Len(out) - 1) : ~LessU(out[k + 1].id, out[k].id)

\* all lines emitted for a file whose second id is below its first
C9_Witness ==
    /\ pc = "returned"
    /\ Len(out) = 2
    /\ LessU(returned[2][1], returned[1][1])
    /\ LessU(out[1].id, out[2].id)

\* number of occurrences of x in the sequence s
Occurrences(s, x) == Cardinality({k \in DOMAIN s : s[k] = x})

\* s and t hold the same elements the same number of times
SameElements(s, t) ==
    /\ Len(s) = Len(t)
    /\ \A k \in DOMAIN s : Occurrences(s, s[k]) = Occurrences(t, s[k])

\* the (id, offset) pairs of the emitted lines
EmittedPairs == [k \in 1..Len(out) |-> <<out[k].id, out[k].address>>]

\* C10: the emitted (id, offset) pairs are, as a multiset, the pairs that
\* were decoded: equal ids keep a line each and every id keeps its offset
C10_DuplicatesPreserved ==
    (pc \in {"emit", "returned"} /\ a_argc = 2 /\ err = "none") =>
        /\ SameElements(mappings, returned)
        /\ \A k \in 1..Len(out) : EmittedPairs[k] = mappings[k]
        /\ pc = "returned" => SameElements(EmittedPairs, returned)

\* all lines emitted for two records of the same id, with different offsets
C10_Witness ==
    /\ pc = "returned"
    /\ Len(out) = 2
    /\ returned[1][1] = returned[2][1]
    /\ returned[1][2] # returned[2][2]
    /\ out[1].id = out[2].id
    /\ out[1].address # out[2].address

\* C11: a pointer-scaled record in a file whose pointer_size is 0 ends
\* decoding with the error DivisionFault, raised by a guard in place of the
\* division, which is never evaluated
C11_DivisionGuarded ==
    [][(pc = "loop" /\ n < Len(mappings)
            /\ pos < Len(buf)
            /\ Tag % 16 \in 0..7
            /\ Len(buf) - pos >= 1 + Width(Tag % 16)
            /\ (Tag \div 16) \in 8..15
            /\ PointerSize = 0) =>
        /\ err' = "DivisionFault"
        /\ pc' = "catch"]_vars

\* C12: a file with a valid header announcing n records, each made of the
\* tag 0x00, an id and an offset as 8 little-endian bytes, decodes to
\* exactly the n encoded pairs, in the order of the file, whatever the
\* record before and pointer_size are
C12_AbsoluteRoundTrip ==
    (pc \in {"emit", "returned", "catch", "crashed"} /\ a_argc = 2) =>
        \A f \in AbsoluteInputs :
            f.bytes = buf =>
                /\ err = "none"
                /\ Len(returned) = Len(f.pairs)
                /\ \A k \in 1..Len(f.pairs) :
                    /\ HexDigits(returned[k][1]) = f.pairs[k][1]
                    /\ HexDigits(returned[k][2]) = f.pairs[k][2]

\* the pairs (2^64-1, 0) and (0x0807060504030201, 0x100F0E0D0C0B0A09), in
\* this order, decoded from a file whose pointer size is 4
C12_Witness ==
    /\ pc = "returned"
    /\ err = "none"
    /\ header.pointer_size = 4
    /\ \E f \in AbsoluteInputs :
        /\ f.bytes = buf
        /\ f.pairs = <<<<HexMax, HexZero>>, <<HexLow, HexHigh>>>>
    /\ returned[2] = <<<<1, 2, 3, 4, 5, 6, 7, 8>>,
                       <<9, 10, 11, 12, 13, 14, 15, 16>>>>

\* the mapping a record gives from the mapping before it, its own bytes at
\* p and pointer_size ps: the id and offset of the table of modes, the
\* offset taken in pointers and multiplied back when bit 3 of hi is set
RecordResult(previous, p, ps) ==
    LET l == buf[p + 1] % 16
        h == buf[p + 1] \div 16
        sub == h % 8
        field == ValueAt(p + 1 + Width(l), Width(sub))
    IN  <<Delta(l, previous[1], ValueAt(p + 1, Width(l))),
          IF h < 8 THEN Delta(sub, previous[2], field)
          ELSE IF ps = 0 THEN U64Zero
          ELSE MulU64(Delta(sub, DivU64(previous[2], U64OfInt32(ps)), field),
                      U64OfInt32(ps))>>

\* C13: prev_id and prev_offset are 0 when the first record is decoded and
\* are the id and the final (scaled) offset of the preceding mapping when a
\* later one is; a record's mapping is determined by its bytes, pointer_size
\* and the preceding mapping
C13_CarriedState ==
    [][/\ pc' = "loop" =>
            /\ n' = 0 => prevID' = U64Zero /\ prevOffset' = U64Zero
            /\ n' > 0 => <<prevID', prevOffset'>> = mappings'[n']
       /\ RecordDecoded =>
            mappings'[n'] =
                RecordResult(IF n = 0 THEN <<U64Zero, U64Zero>>
                             ELSE mappings[n], pos, PointerSize)]_vars

\* a delta record decoded after a pointer-scaled one: 5 pointers of 4 bytes
\* gave the offset 20, from which sub-mode 2 with byte 5 gave 25
C13_Witness ==
    /\ pc = "loop"
    /\ n = 2
    /\ PointerSize = 4
    /\ mappings[1] = <<U64Of(7), U64Of(20)>>
    /\ type \div 16 = 2
    /\ mappings[2] = <<U64Of(8), U64Of(25)>>
    /\ prevID = U64Of(8)
    /\ prevOffset = U64Of(25)

\* C14: a decoded record with nibbles lo and hi moves the cursor by exactly
\* 1 + W(lo) + W(hi&7) bytes, W = 8,0,1,1,2,2,2,4: the tag first, then the
\* id field, then the offset field, nothing for the scaling bit; the next
\* tag is the byte at the position reached
C14_RecordFraming ==
    [][/\ RecordDecoded =>
            LET l == Tag % 16
                h == Tag \div 16
            IN  /\ pos' = pos + 1 + Width(l) + Width(h % 8)
                /\ l \in {0, 6, 7} => id' = ValueAt(pos + 1, Width(l))
                /\ h \in {0, 6, 7} =>
                       offset' = ValueAt(pos + 1 + Width(l), Width(h))
       /\ (pc = "loop" /\ n < Len(mappings) /\ pos < Len(buf)) =>
            type' = buf[pos + 1]]_vars

\* the record (100, 16) of 5 bytes, then a record with tag 0xF0: 1 byte of
\* tag, 8 of id and 4 of offset, the scaling bit set
C14_Witness ==
    /\ pc = "loop"
    /\ n = 2
    /\ mappings[1] = <<U64Of(100), U64Of(16)>>
    /\ type = 240
    /\ pos = 32 + 5 + 13
    /\ pos = Len(buf)

\* the header that the fields of the file make, the name being nameLen
\* bytes long
HeaderOfFile(nameLen) ==
    [format |-> FieldAt(0),
     version |-> <<FieldAt(4), FieldAt(8), FieldAt(12), FieldAt(16)>>,
     pointer_size |-> FieldAt(24 + nameLen),
     address_count |-> FieldAt(28 + nameLen)]

\* C15 as stated: with format in {1,2} and 0 <= nameLen <= bytes remaining
\* after offset 24, read_header takes pointer_size from offset 24 + nameLen
\* and address_count from offset 28 + nameLen and leaves the cursor at
\* 32 + nameLen
C15_HeaderFramingAsStated ==
    (/\ a_argc = 2
     /\ pc \notin {"wmain", "read_header"}
     /\ Len(buf) >= 24
     /\ FieldAt(0) \in {1, 2}
     /\ FieldAt(20) >= 0
     /\ FieldAt(20) <= Len(buf) - 24) =>
        /\ header.format = FieldAt(0)
        /\ header = HeaderOfFile(FieldAt(20))
        /\ pc = "allocate" => pos = 32 + FieldAt(20) /\ err = "none"
        /\ (pc = "loop" /\ n = 0) => pos = 32 + FieldAt(20)

\* C15, amended: with format in {1,2}, 0 <= nameLen and nameLen + 8 bytes
\* or more remaining after offset 24, read_header takes pointer_size from
\* offset 24 + nameLen and address_count from offset 28 + nameLen and leaves
\* the cursor at 32 + nameLen, where the first tag is read, whatever the
\* bytes of the name are
C15_HeaderFraming ==
    (/\ a_argc = 2
     /\ pc \notin {"wmain", "read_header"}
     /\ Len(buf) >= 24
     /\ FieldAt(0) \in {1, 2}
     /\ FieldAt(20) >= 0
     /\ FieldAt(20) + 8 <= Len(buf) - 24) =>
        /\ header.format = FieldAt(0)
        /\ header = HeaderOfFile(FieldAt(20))
        /\ pc = "allocate" => pos = 32 + FieldAt(20) /\ err = "none"
        /\ (pc = "loop" /\ n = 0) => pos = 32 + FieldAt(20)

\* a header with a name of one byte, the byte 2, read to its end
C15_Witness ==
    /\ pc = "allocate"
    /\ Len(buf) >= 33
    /\ FieldAt(20) = 1
    /\ buf[25] = 2
    /\ pos = 33
    /\ header.format = 2
    /\ header.pointer_size = 4
    /\ header.address_count = 2

\* C16: wherever wmain returns -- after every line was emitted, after an
\* exception of the decoding, after a wrong argument count -- the status is
\* EXIT_FAILURE, and a status exists only once wmain returned
C16_AlwaysExitFailure ==
    /\ pc = "returned" => status = EXIT_FAILURE
    /\ status # -1 => pc = "returned"
    /\ (pc = "returned" /\ a_argc # 2) => err = "BadArguments"

\* wmain returned after all lines of a file of two records were emitted
C16_Witness ==
    /\ pc = "returned"
    /\ a_argc = 2
    /\ err = "none"
    /\ Len(mappings) = 2
    /\ Len(out) = 2
    /\ status = EXIT_FAILURE

\* wmain returned after a decode error
C16_WitnessDecodeError ==
    /\ pc = "returned"
    /\ err \in {"OutOfBounds", "UnhandledTag", "InvalidFormat"}
    /\ status = EXIT_FAILURE

\* wmain returned after a wrong argument count
C16_WitnessArguments ==
    /\ pc = "returned"
    /\ a_argc # 2
    /\ status = EXIT_FAILURE

\* C17: an iteration whose tag has lo in 0..7, whatever hi in 0..15, with
\* pointer_size > 0 and the bytes of both fields present, completes and
\* stores a mapping; an iteration raises UnhandledTag only on a tag whose
\* lo is in 8..15
C17_HighNibbleTotal ==
    [][(pc = "loop" /\ n < Len(mappings) /\ pos < Len(buf)) =>
        /\ (/\ Tag % 16 \in 0..7
            /\ (Tag \div 16) \in 0..15
            /\ PointerSize > 0
            /\ Len(buf) - pos >=
                   1 + Width(Tag % 16) + Width((Tag \div 16) % 8)) =>
               /\ RecordDecoded
               /\ err' = "none"
               /\ type' = Tag
        /\ err' = "UnhandledTag" => Tag % 16 \in 8..15]_vars

\* a record with all four bits of hi set was decoded with pointer size 4
C17_Witness ==
    /\ pc = "loop"
    /\ err = "none"
    /\ n = 2
    /\ PointerSize = 4
    /\ type \div 16 = 15
    /\ type % 16 = 1
    /\ mappings[2][1] = U64Of(8)

\* the file holds a whole header of format 1 or 2 with a pointer size above
\* 0 and a count that is not negative
ValidHeaderFile ==
    /\ a_argc = 2
    /\ Len(buf) >= 24
    /\ FieldAt(0) \in {1, 2}
    /\ FieldAt(20) >= 0
    /\ FieldAt(20) + 8 <= Len(buf) - 24
    /\ PointerSize > 0
    /\ AddressCount >= 0

\* the decoding is over: every record is decoded, or one of OutOfBounds and
\* UnhandledTag was raised
DecodingOver ==
    /\ ValidHeaderFile
    /\ \/ /\ pc \in {"emit", "returned"}
          /\ err = "none"
          /\ n = AddressCount
       \/ /\ pc \in {"catch", "returned"}
          /\ err \in {"OutOfBounds", "UnhandledTag"}
          /\ n < AddressCount

\* C18: on a file with a valid header and pointer_size > 0 the decoding
\* comes to be over; an iteration starts only while fewer than address_count
\* records are decoded and nothing but OutOfBounds or UnhandledTag is raised;
\* a completed iteration moves the cursor forward by 1 byte or more, no
\* iteration moves it back, and the records decoded are never more than the
\* bytes read after the header
C18_Termination ==
    /\ (pc = "read_header" /\ ValidHeaderFile) ~> DecodingOver
    /\ [](ValidHeaderFile =>
            /\ pc # "crashed"
            /\ err \in {"none", "OutOfBounds", "UnhandledTag"}
            /\ pc \in {"loop", "emit", "catch", "returned"} =>
                  /\ n <= AddressCount
                  /\ n <= pos - (32 + FieldAt(20))
                  /\ pos <= Len(buf))
    /\ [][(pc = "loop" /\ ValidHeaderFile) =>
            /\ pos' >= pos
            /\ RecordDecoded => pos' >= pos + 1
            /\ pc' # "emit" => n < AddressCount]_vars

\* both records of a file were decoded, the cursor two bytes or more past
\* the header
C18_Witness ==
    /\ pc = "emit"
    /\ ValidHeaderFile
    /\ AddressCount = 2
    /\ n = 2
    /\ pos >= 32 + FieldAt(20) + 2
    /\ err = "none"

====
